---- MODULE Spec2Model ----
(***************************************************************************)
(* Model of the Sokoban board state machine (src/src/data): the Map with   *)
(* its bounds-safe lookup, Direction::to_coords with its saturating u32    *)
(* arithmetic, and Board::do_move_player / Board::reset acting on a Board  *)
(* as built by Board::from_str (specification Spec); and the parsers       *)
(* Map::try_from and Board::from_str with Map::new, Map::get and the       *)
(* Display of a Map, applied to texts (specification ParseSpec); and       *)
(* game() with game_loop and the calls of its Ui (specification GameSpec); *)
(* and the event handlers of the ggez, macroquad and fyrox front ends      *)
(* (specification FrontSpec).                                              *)
(*                                                                         *)
(* Coordinates are pairs <<i, j>> (column, row) of u32 values.  The crate  *)
(* sequence is a TLA+ sequence, so the crate that Rust calls index k is    *)
(* element k + 1 here; a returned crate index of 0 stands for Rust's None. *)
(***************************************************************************)
EXTENDS Integers, Sequences, FiniteSets, TLC

\* ---------------------------------------------------------------- bounds
\* Largest number of crates in a level.
MaxCrates == 2
\* The largest u32 value, where saturating_add stops and above which u32
\* arithmetic overflows: u32::MAX of the program, scaled down to a 4-bit word
\* (TLC's integers end at 2^31 - 1).  The 9 squares of the level map fit.
CoordMax == 15

Directions == {"Left", "Right", "Up", "Down"}

\* ------------------------------------------------------------------- Map
CellKind == {"Void", "Floor", "Wall", "Target"}

is_crossableButVoid(c) == c # "Void"

\* CellKind::is_crossable
is_crossableFloorOnly(c) == c = "Floor"

is_crossable(c) == ~(c \in {"Void", "Wall"})

\* TryFrom<char> for CellKind, on the four known symbols.
CellKindFromChar(ch) ==
    CASE ch = " " -> "Void"
      [] ch = "." -> "Floor"
      [] ch = "#" -> "Wall"
      [] ch = "X" -> "Target"

RECURSIVE MaxLineLen(_)
MaxLineLen(lines) ==
    IF lines = << >> THEN 0
    ELSE LET rest == MaxLineLen(Tail(lines))
         IN IF Len(Head(lines)) > rest THEN Len(Head(lines)) ELSE rest

\* get_width_height, on the lines of the map block.
get_width_height(lines) == <<MaxLineLen(lines), Len(lines)>>

\* Map::try_from on the lines of a map block made of known symbols:
\* a width * height grid of Void (Map::new), then each character of line j
\* written at row-major index j * width + i.
MapFromLines(lines) ==
    LET wh == get_width_height(lines)
        w  == wh[1]
        h  == wh[2]
    IN [width   |-> w,
        height  |-> h,
        squares |-> [k \in 1..(w * h) |->
                       LET j == (k - 1) \div w
                           i == (k - 1) % w
                       IN IF i + 1 <= Len(lines[j + 1])
                          THEN CellKindFromChar(lines[j + 1][i + 1])
                          ELSE "Void"]]

\* Map::try_get: "None" stands for Option::None, "Panic" for the panic of
\* indexing squares out of its bounds.  j * width + i is u32 arithmetic: it
\* exceeds u32::MAX only on a map whose width * height does, which only a
\* build without overflow checks constructs (see Map_new), and there it wraps.
try_get(m, i, j) ==
    IF i < m.width /\ j < m.height
    THEN LET id == (j * m.width + i) % (CoordMax + 1)
         IN IF id < Len(m.squares) THEN m.squares[id + 1] ELSE "Panic"
    ELSE "None"

\* Map::get
get(m, i, j) ==
    LET c == try_get(m, i, j) IN IF c = "None" THEN "Void" ELSE c

\* ------------------------------------------------------------- Direction
saturating_sub1Wrapping(n) == IF n = 0 THEN CoordMax ELSE n - 1

saturating_sub1(n) == IF n = 0 THEN 0 ELSE n - 1
saturating_add1(n) == IF n = CoordMax THEN CoordMax ELSE n + 1

\* Direction::to_coords
to_coords(d, i, j) ==
    CASE d = "Left"  -> <<saturating_sub1(i), j>>
      [] d = "Right" -> <<saturating_add1(i), j>>
      [] d = "Up"    -> <<i, saturating_sub1(j)>>
      [] d = "Down"  -> <<i, saturating_add1(j)>>

\* ----------------------------------------------------------------- Board
\* A Board value b is the record of the struct's five fields:
\* [map, player, crates, original_player, original_crates].

\* crates.iter().enumerate().find(|(_, c)| c.pos() == pos).map(|(i, _)| i):
\* the first crate at pos, 0 when there is none.
find_crate(cs, pos) ==
    IF \E k \in 1..Len(cs) : cs[k] = pos
    THEN CHOOSE k \in 1..Len(cs) :
            cs[k] = pos /\ \A l \in 1..(k - 1) : cs[l] # pos
    ELSE 0

\* The condition under which the crate found in front of the player is pushed:
\* its landing cell is crossable and no crate is on it.
landing_is_freeNoCrateCheck(b, new_crate) ==
    is_crossable(get(b.map, new_crate[1], new_crate[2]))

landing_is_freeButForOneCrate(b, new_crate) ==
    /\ is_crossable(get(b.map, new_crate[1], new_crate[2]))
    /\ Cardinality({k \in 1..Len(b.crates) : b.crates[k] = new_crate}) <= 1

landing_is_free(b, new_crate) ==
    /\ is_crossable(get(b.map, new_crate[1], new_crate[2]))
    /\ find_crate(b.crates, new_crate) = 0

do_moveReordering(cs, index, i, j) ==
    <<<<i, j>>>> \o SubSeq(cs, 1, index - 1) \o SubSeq(cs, index + 1, Len(cs))

do_moveSwapped(cs, index, i, j) == [cs EXCEPT ![index] = <<j, i>>]

\* self.crates[index].do_move(i, j): crate index now is at (i, j).
do_move(cs, index, i, j) == [cs EXCEPT ![index] = <<i, j>>]

\* The value of Option<Option<usize>> a call returns: moved = FALSE is None,
\* moved = TRUE with crate = 0 is Some(None), moved = TRUE with crate = k is
\* Some(Some(k - 1)).
Blocked        == [moved |-> FALSE, crate |-> 0]
Moved(crate)   == [moved |-> TRUE, crate |-> crate]

do_move_playerIgnoringBlockingCrate(b, d) ==
    LET new_player == to_coords(d, b.player[1], b.player[2])
        under      == get(b.map, new_player[1], new_player[2])
        index      == find_crate(b.crates, new_player)
        new_crate  == to_coords(d, new_player[1], new_player[2])
        pushed     == index # 0 /\ landing_is_free(b, new_crate)
        b2         == IF pushed
                      THEN [b EXCEPT !.crates =
                              do_move(b.crates, index, new_crate[1], new_crate[2])]
                      ELSE b
        moved_crate == IF pushed THEN index ELSE 0
    IN IF ~is_crossable(under)
       THEN [board |-> b2, ret |-> Blocked]
       ELSE [board |-> [b2 EXCEPT !.player = new_player],
             ret   |-> Moved(moved_crate)]

\* Board::do_move_player: the board it leaves and the value it returns.
do_move_player(b, d) ==
    LET new_player == to_coords(d, b.player[1], b.player[2])
        under      == get(b.map, new_player[1], new_player[2])
        index      == find_crate(b.crates, new_player)
        new_crate  == to_coords(d, new_player[1], new_player[2])
        pushed     == index # 0 /\ landing_is_free(b, new_crate)
        b2         == IF pushed
                      THEN [b EXCEPT !.crates =
                              do_move(b.crates, index, new_crate[1], new_crate[2])]
                      ELSE b
        is_crate_blocking == index # 0 /\ ~pushed
        moved_crate       == IF pushed THEN index ELSE 0
    IN IF ~is_crossable(under) \/ is_crate_blocking
       THEN [board |-> b2, ret |-> Blocked]
       ELSE [board |-> [b2 EXCEPT !.player = new_player],
             ret   |-> Moved(moved_crate)]

\* Crate::is_placed
is_placed(b, c) == get(b.map, c[1], c[2]) = "Target"

has_wonAny(b) == \E k \in 1..Len(b.crates) : is_placed(b, b.crates[k])

\* Board::has_won
has_won(b) == \A k \in 1..Len(b.crates) : is_placed(b, b.crates[k])

Board_getIgnoringPlayer(b, i, j) ==
    LET c == get(b.map, i, j)
        k == find_crate(b.crates, <<i, j>>)
    IN IF k # 0 THEN [item |-> "Crate", index |-> k, cell |-> c]
       ELSE [item |-> "None", index |-> 0, cell |-> c]

\* Board::get: the BoardElem of the cell, its item ("Player", "Crate" with
\* the index of the crate counted from 1, or "None") and its CellKind.
Board_get(b, i, j) ==
    LET c == get(b.map, i, j)
        k == find_crate(b.crates, <<i, j>>)
    IN IF b.player = <<i, j>>
       THEN [item |-> "Player", index |-> 0, cell |-> c]
       ELSE IF k # 0 THEN [item |-> "Crate", index |-> k, cell |-> c]
       ELSE [item |-> "None", index |-> 0, cell |-> c]

can_moveIgnoringItems(b, c, d) ==
    LET t == to_coords(d, c[1], c[2])
    IN is_crossable(Board_get(b, t[1], t[2]).cell)

\* Crate::can_move, for the crate at c
can_move(b, c, d) ==
    LET t == to_coords(d, c[1], c[2])
        e == Board_get(b, t[1], t[2])
    IN IF e.item # "None" THEN FALSE ELSE is_crossable(e.cell)

resetRebuildingMap(b) ==
    [b EXCEPT !.player = b.original_player,
              !.crates = b.original_crates,
              !.map = [b.map EXCEPT !.squares =
                         [k \in DOMAIN b.map.squares |-> "Void"]]]

resetPlayerOnly(b) == [b EXCEPT !.player = b.original_player]

resetBySwap(b) ==
    [b EXCEPT !.player = b.original_player,
              !.crates = b.original_crates,
              !.original_crates = b.crates]

\* Board::reset
reset(b) ==
    [b EXCEPT !.player = b.original_player,
              !.crates = b.original_crates]

\* ----------------------------------------------------------------- texts
\* A text (&str) is a sequence of characters, each a one-character string.
\* The texts of the model are ASCII, so that str::len (bytes) is Len.
NL == "\n"

SYMBOL_VOID   == " "
SYMBOL_FLOOR  == "."
SYMBOL_WALL   == "#"
SYMBOL_TARGET == "X"
Symbols == {SYMBOL_VOID, SYMBOL_FLOOR, SYMBOL_WALL, SYMBOL_TARGET}

Digits == {"0", "1", "2", "3", "4", "5", "6", "7", "8", "9"}

\* The two ways of compiling the u32 arithmetic: with overflow checks (an
\* overflow panics) or without (it wraps).
Builds == {"debug", "release"}

starts_with(s, sep) ==
    Len(s) >= Len(sep) /\ SubSeq(s, 1, Len(sep)) = sep

\* str::split(sep): the pieces between the matches of sep, which are found
\* from left to right and do not overlap; cur is the piece being read.
RECURSIVE split_from(_, _, _)
split_from(s, sep, cur) ==
    IF s = << >> THEN <<cur>>
    ELSE IF starts_with(s, sep)
         THEN <<cur>> \o split_from(SubSeq(s, Len(sep) + 1, Len(s)), sep, << >>)
         ELSE split_from(Tail(s), sep, Append(cur, Head(s)))

split(s, sep) == split_from(s, sep, << >>)

\* str::lines: the pieces between the newlines, without a last empty piece
\* (the texts of the model hold no carriage return).
lines(s) ==
    LET ps == split(s, <<NL>>)
    IN IF ps[Len(ps)] = << >> THEN SubSeq(ps, 1, Len(ps) - 1) ELSE ps

is_not_empty(l) == l # << >>

DigitValue(ch) ==
    CASE ch = "0" -> 0 [] ch = "1" -> 1 [] ch = "2" -> 2 [] ch = "3" -> 3
      [] ch = "4" -> 4 [] ch = "5" -> 5 [] ch = "6" -> 6 [] ch = "7" -> 7
      [] ch = "8" -> 8 [] ch = "9" -> 9

\* The value of a sequence of digits, or CoordMax + 1 once it is above
\* CoordMax.
RECURSIVE DecimalValue(_, _)
DecimalValue(ds, acc) ==
    IF ds = << >> THEN acc
    ELSE LET v == acc * 10 + DigitValue(Head(ds))
         IN IF v > CoordMax THEN CoordMax + 1 ELSE DecimalValue(Tail(ds), v)

\* u32::from_str: an optional '+', then one digit at least and only
\* digits, of a value that fits.
u32_from_str(n) ==
    LET ds == IF n # << >> /\ Head(n) = "+" THEN Tail(n) ELSE n
    IN IF ds = << >> \/ \E k \in 1..Len(ds) : ds[k] \notin Digits
       THEN [ok |-> FALSE, val |-> 0]
       ELSE LET v == DecimalValue(ds, 0)
            IN IF v > CoordMax THEN [ok |-> FALSE, val |-> 0]
               ELSE [ok |-> TRUE, val |-> v]

\* line.split(',').map(u32::from_str) read twice with next(): the first two
\* fields of the line, the others are not looked at.
parse_coordinates(line) ==
    LET fs == split(line, <<",">>)
        a  == u32_from_str(fs[1])
        b  == IF Len(fs) >= 2 THEN u32_from_str(fs[2])
              ELSE [ok |-> FALSE, val |-> 0]
    IN [ok |-> a.ok /\ b.ok, pos |-> <<a.val, b.val>>]

\* -------------------------------------------------- building and showing
Panic == [kind |-> "Panic"]
Ok(v) == [kind |-> "Ok", val |-> v]
Err(e, a) == [kind |-> "Err", err |-> e, arg |-> a]

\* Map::new.  width * height is a u32 product: above u32::MAX it panics in a
\* build with overflow checks and wraps in one without.
Map_new(b, width, height) ==
    LET product == width * height
        len     == product % (CoordMax + 1)
    IN IF product > CoordMax /\ b = "debug"
       THEN Panic
       ELSE Ok([width |-> width, height |-> height,
                squares |-> [k \in 1..len |-> "Void"]])

\* The two loops of Map::try_from from character i of line j on (both
\* counted from 1): an unknown character ends them with its error, a
\* square outside of the Vec with a panic.
RECURSIVE fill_squares(_, _, _, _, _)
fill_squares(ls, m, j, i, squares) ==
    IF j > Len(ls) THEN Ok([m EXCEPT !.squares = squares])
    ELSE IF i > Len(ls[j]) THEN fill_squares(ls, m, j + 1, 1, squares)
    ELSE LET c  == ls[j][i]
             id == (j - 1) * m.width + (i - 1)
         IN IF c \notin Symbols THEN Err("Unknown symbol", c)
            ELSE IF id >= Len(squares) THEN Panic
            ELSE fill_squares(ls, m, j, i + 1,
                              [squares EXCEPT ![id + 1] = CellKindFromChar(c)])

\* Map::try_from (and Map::from_str)
try_from(b, src) ==
    LET ls == lines(src)
    IN IF ls = << >> THEN Panic
       ELSE LET wh == get_width_height(ls)
            IN IF wh[1] > CoordMax \/ wh[2] > CoordMax THEN Panic
               ELSE LET n == Map_new(b, wh[1], wh[2])
                    IN IF n.kind = "Panic" THEN Panic
                       ELSE fill_squares(ls, n.val, 1, 1, n.val.squares)

\* impl Display for CellKind
SymbolOf(c) ==
    CASE c = "Void"   -> SYMBOL_VOID
      [] c = "Floor"  -> SYMBOL_FLOOR
      [] c = "Wall"   -> SYMBOL_WALL
      [] c = "Target" -> SYMBOL_TARGET

\* impl Display for Map, from square i on (counted from 0).
RECURSIVE display_from(_, _)
display_from(m, i) ==
    IF i >= Len(m.squares) THEN << >>
    ELSE (IF i > 0 /\ i % m.width = 0 THEN <<NL>> ELSE << >>)
             \o <<SymbolOf(m.squares[i + 1])>>
             \o display_from(m, i + 1)

Display(m) == display_from(m, 0)

\* ---------------------------------------------------------- level parser
\* src.split("\n\n").filter(|l| !l.is_empty())
blocks(src) == SelectSeq(split(src, <<NL, NL>>), is_not_empty)

parse_cratesSkippingBadLines(crates_lines) ==
    LET ls == SelectSeq(lines(crates_lines),
                        LAMBDA l : parse_coordinates(l).ok)
    IN Ok([k \in 1..Len(ls) |-> parse_coordinates(ls[k]).pos])

parse_cratesReversed(crates_lines) ==
    LET ls  == lines(crates_lines)
        bad == {k \in 1..Len(ls) : ~parse_coordinates(ls[k]).ok}
    IN IF bad = {}
       THEN Ok([k \in 1..Len(ls) |->
                   parse_coordinates(ls[Len(ls) + 1 - k]).pos])
       ELSE Err("CantParseCrateCoordinates",
                ls[CHOOSE k \in bad : \A l \in bad : k <= l])

\* The loop over the lines of the crates block: the crates in the order of
\* the lines, or the error of the first line that does not parse.
parse_crates(crates_lines) ==
    LET ls  == lines(crates_lines)
        bad == {k \in 1..Len(ls) : ~parse_coordinates(ls[k]).ok}
    IN IF bad = {}
       THEN Ok([k \in 1..Len(ls) |-> parse_coordinates(ls[k]).pos])
       ELSE Err("CantParseCrateCoordinates",
                ls[CHOOSE k \in bad : \A l \in bad : k <= l])

from_strCheckingPlacement(b, src) ==
    LET bs == blocks(src)
    IN IF Len(bs) < 1 THEN Err("MissingMap", << >>)
       ELSE LET m == try_from(b, bs[1])
       IN IF m.kind = "Panic" THEN Panic
       ELSE IF m.kind = "Err" THEN Err("CantParseMap", m.arg)
       ELSE IF Len(bs) < 2 THEN Err("MissingPlayerCoordinates", << >>)
       ELSE LET p == parse_coordinates(bs[2])
       IN IF ~p.ok THEN Err("CantParsePlayerCoordinates", bs[2])
       ELSE IF Len(bs) < 3 THEN Err("MissingCratesCoordinates", << >>)
       ELSE LET cs == parse_crates(bs[3])
       IN IF cs.kind = "Err" THEN cs
       ELSE IF \E k \in 1..Len(cs.val) :
                  ~is_crossable(get(m.val, cs.val[k][1], cs.val[k][2]))
       THEN Err("CantParseCrateCoordinates", bs[3])
       ELSE Ok([map |-> m.val, player |-> p.pos, crates |-> cs.val,
                original_player |-> p.pos, original_crates |-> cs.val])

\* Board::from_str
from_str(b, src) ==
    LET bs == blocks(src)
    IN IF Len(bs) < 1 THEN Err("MissingMap", << >>)
       ELSE LET m == try_from(b, bs[1])
       IN IF m.kind = "Panic" THEN Panic
       ELSE IF m.kind = "Err" THEN Err("CantParseMap", m.arg)
       ELSE IF Len(bs) < 2 THEN Err("MissingPlayerCoordinates", << >>)
       ELSE LET p == parse_coordinates(bs[2])
       IN IF ~p.ok THEN Err("CantParsePlayerCoordinates", bs[2])
       ELSE IF Len(bs) < 3 THEN Err("MissingCratesCoordinates", << >>)
       ELSE LET cs == parse_crates(bs[3])
       IN IF cs.kind = "Err" THEN cs
       ELSE Ok([map |-> m.val, player |-> p.pos, crates |-> cs.val,
                original_player |-> p.pos, original_crates |-> cs.val])

\* ----------------------------------------------------------------- state
VARIABLES
    map,              \* Board.map
    player,           \* Board.player
    crates,           \* Board.crates
    original_player,  \* Board.original_player
    original_crates,  \* Board.original_crates
    parsed_player,    \* the player line as from_str parsed it
    parsed_crates,    \* the crates block as from_str parsed it
    op,               \* the last call: "from_str", "do_move_player", "reset"
    dir,              \* the direction of the latest do_move_player call
    ret,              \* what the latest do_move_player call returned
    text,             \* the text handed to Map::try_from or Board::from_str
    build,            \* how the program was compiled, one of Builds
    output,           \* the latest call of the parsers and what it returned
    game,             \* where game() is, and what its calls returned
    front             \* the state a graphical front end keeps beside the board

vars == <<map, player, crates, original_player, original_crates,
          parsed_player, parsed_crates, op, dir, ret, text, build, output,
          game, front>>

\* No call of the parsers yet.
NoOutput == [fn |-> "none"]

\* game() not called: pc is the call game() is about to make, kind its
\* DisplayKind, loop_res what game_loop returned, res what game() returned,
\* cleanups the number of calls of cleanup, won the number of calls of won,
\* shown the player and crates of the board last displayed.
NoGame ==
    [pc |-> "none", kind |-> "CLI", loop_res |-> "none", res |-> "none",
     cleanups |-> 0, won |-> 0,
     shown |-> [player |-> <<0, 0>>, crates |-> << >>]]

\* No front end: kind is the engine, direction the facing direction, loading
\* the LoadingState of fyrox, quit whether the front end asked to quit,
\* panicked the panic it raised; of the latest handler, on_won tells whether
\* it called do_move_player or reset on a won board and animations lists its
\* calls of add_animation.
NoFront ==
    [kind |-> "none", direction |-> "Down", loading |-> "None",
     quit |-> FALSE, panicked |-> "no", on_won |-> FALSE,
     animations |-> << >>]

Board ==
    [map |-> map, player |-> player, crates |-> crates,
     original_player |-> original_player,
     original_crates |-> original_crates]

\* The map block of the level the model plays on.
LevelMapLines ==
    << <<".", ".", "X">>,
       <<".", "#", ".">>,
       <<"X", ".", " ">> >>

\* The coordinates a level file may give.  from_str accepts any pair of u32:
\* every cell of the map, the two cells right of the first row, and the far
\* ends of the first row and of the first column.
LevelPositions ==
    LET m == MapFromLines(LevelMapLines)
    IN ((0..(m.width - 1)) \X (0..(m.height - 1)))
           \cup {<<m.width, 0>>, <<m.width + 1, 0>>,
                 <<CoordMax, 0>>, <<0, CoordMax>>}

LevelCrates ==
    UNION {[1..n -> LevelPositions] : n \in 1..MaxCrates}

\* Board::from_str on a level whose three blocks parse.
Init ==
    /\ map = MapFromLines(LevelMapLines)
    /\ parsed_player \in LevelPositions
    /\ parsed_crates \in LevelCrates
    /\ player = parsed_player
    /\ crates = parsed_crates
    /\ original_player = parsed_player
    /\ original_crates = parsed_crates
    /\ op = "from_str"
    /\ dir = "Down"
    /\ ret = Blocked
    /\ text = << >>
    /\ build = "release"
    /\ output = NoOutput
    /\ game = NoGame
    /\ front = NoFront

\* The five fields of the board become those of b.
BoardBecomes(b) ==
    /\ map' = b.map
    /\ player' = b.player
    /\ crates' = b.crates
    /\ original_player' = b.original_player
    /\ original_crates' = b.original_crates

DoMovePlayer(d) ==
    LET o == do_move_player(Board, d)
    IN /\ BoardBecomes(o.board)
       /\ op' = "do_move_player"
       /\ dir' = d
       /\ ret' = o.ret
       /\ UNCHANGED <<parsed_player, parsed_crates, text, build, output,
                      game>>
       /\ UNCHANGED front

Reset ==
    /\ BoardBecomes(reset(Board))
    /\ op' = "reset"
    /\ UNCHANGED <<parsed_player, parsed_crates, dir, ret,
                   text, build, output, game>>
    /\ UNCHANGED front

Next ==
    \/ \E d \in Directions : DoMovePlayer(d)
    \/ Reset

Spec == Init /\ [][Next]_vars

\* --------------------------------------------- the parsers on their own
\* The texts handed to Map::try_from and Board::from_str.
SEP == <<NL, NL>>

Row4 == <<".", ".", ".", ".">>

MapBlocks ==
    { <<".", ".", "X">>,
      <<".", "X", NL, "#">>,
      <<".", "?", "X">>,
      <<"X", NL, "@", "?">>,
      \* 5 rows of 4: more squares than a u32 counts
      Row4 \o <<NL>> \o Row4 \o <<NL>> \o Row4 \o <<NL>> \o Row4
           \o <<NL, ".", ".", "?", ".">> }

PlayerBlocks ==
    { <<"0", ",", "0">>,
      <<"1", "2", ",", "1">>,
      <<"3", ",", "x">>,
      <<"2">>,
      <<"1", ",", "2", ",", "3">> }

CratesBlocks ==
    { <<"1", ",", "0">>,
      <<"1", ",", "0", NL, "2", ",", "0">>,
      <<"1", ",", "0", NL, "3", ",", "x", NL, "x", ",", "1">>,
      <<"7">>,
      <<"2", ",", "1", NL>>,
      <<"9", "9", ",", "0">>,
      <<"0", ",", "0", NL, "0", ",", "1", NL, "0", ",", "1">>,
      <<"1", ",", "0", ",", "5">>,
      <<NL>> }

MapTexts ==
    { << >>,
      <<NL>>,
      SEP,
      <<NL, ".", "X">>,
      <<".", NL, NL, ".">>,
      <<" ", "#", NL, ".", "X", NL>>,
      \* a row of 3 and 6 empty rows: 21 squares, more than a u32 counts
      <<".", ".", ".", NL, NL, NL, NL, NL, NL, NL>> }

Texts ==
    MapTexts
    \cup {m \o t : m \in MapBlocks, t \in {<< >>, <<NL>>, SEP}}
    \cup {m \o SEP \o p \o t :
            m \in MapBlocks, p \in PlayerBlocks, t \in {<< >>, <<NL>>, SEP}}
    \cup {m \o SEP \o p \o SEP \o c :
            m \in MapBlocks, p \in PlayerBlocks, c \in CratesBlocks}
    \cup {<<NL>> \o m \o SEP \o p \o SEP \o c :
            m \in {<<".", ".", "X">>}, p \in PlayerBlocks, c \in CratesBlocks}
    \cup {<<".", "X">> \o SEP \o <<"0", ",", "0">> \o SEP \o <<"1", ",", "0">>
            \o SEP \o c : c \in CratesBlocks}

\* No Map and no Board built yet.
NoMap == [width |-> 0, height |-> 0, squares |-> << >>]

InitParse ==
    /\ text \in Texts
    /\ build \in Builds
    /\ output = NoOutput
    /\ game = NoGame
    /\ map = NoMap
    /\ player = <<0, 0>>
    /\ crates = << >>
    /\ original_player = <<0, 0>>
    /\ original_crates = << >>
    /\ parsed_player = <<0, 0>>
    /\ parsed_crates = << >>
    /\ op = "none"
    /\ dir = "Down"
    /\ ret = Blocked
    /\ front = NoFront

BoardUntouched ==
    UNCHANGED <<map, player, crates, original_player, original_crates,
                parsed_player, parsed_crates, op, dir, ret>>

\* Map::new(width, height)
MapNew(width, height) ==
    /\ output.fn = "none"
    /\ output' = [fn |-> "Map::new", width |-> width, height |-> height,
                  res |-> Map_new(build, width, height)]
    /\ BoardUntouched
    /\ UNCHANGED <<text, build, game>>
    /\ UNCHANGED front

\* text.parse::<Map>()
MapTryFrom ==
    /\ output.fn = "none"
    /\ LET r == try_from(build, text)
       IN /\ output' = [fn |-> "Map::try_from", res |-> r]
          /\ map' = IF r.kind = "Ok" THEN r.val ELSE map
    /\ UNCHANGED <<player, crates, original_player, original_crates,
                   parsed_player, parsed_crates, op, dir, ret, text, build,
                   game>>
    /\ UNCHANGED front

MapIsBuilt ==
    \/ output.fn = "Map::try_from" /\ output.res.kind = "Ok"
    \/ output.fn \in {"Map::get", "Display"}

\* map.try_get(i, j) and map.get(i, j) on the parsed map
MapGet(i, j) ==
    /\ MapIsBuilt
    /\ output' = [fn |-> "Map::get", i |-> i, j |-> j,
                  try_get |-> try_get(map, i, j), get |-> get(map, i, j)]
    /\ BoardUntouched
    /\ UNCHANGED <<text, build, game>>
    /\ UNCHANGED front

\* format!("{}", map) of the parsed map, and the parse of that text
MapDisplay ==
    /\ MapIsBuilt
    /\ output' = [fn |-> "Display", shown |-> Display(map),
                  again |-> try_from(build, Display(map))]
    /\ BoardUntouched
    /\ UNCHANGED <<text, build, game>>
    /\ UNCHANGED front

\* Board::from_str(text)
BoardFromStr ==
    /\ output.fn = "none"
    /\ LET r == from_str(build, text)
       IN /\ output' = [fn |-> "Board::from_str", res |-> r]
          /\ IF r.kind = "Ok"
             THEN /\ BoardBecomes(r.val)
                  /\ parsed_player' = r.val.player
                  /\ parsed_crates' = r.val.crates
                  /\ op' = "from_str"
             ELSE UNCHANGED <<map, player, crates, original_player,
                              original_crates, parsed_player, parsed_crates,
                              op>>
    /\ UNCHANGED <<dir, ret, text, build, game>>
    /\ UNCHANGED front

NextParse ==
    \/ \E width, height \in 0..CoordMax : MapNew(width, height)
    \/ MapTryFrom
    \/ \E i, j \in 0..CoordMax : MapGet(i, j)
    \/ MapDisplay
    \/ BoardFromStr

ParseSpec == InitParse /\ [][NextParse]_vars

\* ------------------------------------------------------- game and game_loop
\* The levels handed to game(): one that a move Right wins, one that two
\* moves Right win, one whose crate is on a Target from the start, one whose
\* player line does not parse and one whose map has more squares than a u32
\* counts.
GameLevels ==
    { <<".", ".", "X">> \o SEP \o <<"0", ",", "0">> \o SEP \o <<"1", ",", "0">>,
      <<".", ".", ".", "X">> \o SEP \o <<"0", ",", "0">> \o SEP
                              \o <<"2", ",", "0">>,
      <<".", "X">> \o SEP \o <<"0", ",", "0">> \o SEP \o <<"1", ",", "0">>,
      <<".", ".", "X">> \o SEP \o <<"3", ",", "x">> \o SEP \o <<"1", ",", "0">>,
      Row4 \o <<NL>> \o Row4 \o <<NL>> \o Row4 \o <<NL>> \o Row4 \o <<NL>>
           \o Row4 \o SEP \o <<"0", ",", "0">> \o SEP \o <<"1", ",", "0">> }

\* DisplayKind
DisplayKinds == {"CLI", "TUI"}

\* Action: the four Movement(dir), ResetLevel and Quit.
Actions == Directions \cup {"ResetLevel", "Quit"}

InitGame ==
    /\ text \in GameLevels
    /\ build \in Builds
    /\ output = NoOutput
    /\ map = NoMap
    /\ player = <<0, 0>>
    /\ crates = << >>
    /\ original_player = <<0, 0>>
    /\ original_crates = << >>
    /\ parsed_player = <<0, 0>>
    /\ parsed_crates = << >>
    /\ op = "none"
    /\ dir = "Down"
    /\ ret = Blocked
    /\ \E k \in DisplayKinds : game = [NoGame EXCEPT !.pc = "ui_new", !.kind = k]
    /\ front = NoFront

game_after_loopReturningErrors(res) ==
    IF res = "Ok" THEN "cleanup" ELSE "returned"

\* game(), after game_loop has returned res: whatever res is, cleanup is the
\* next call.
game_after_loop(res) == "cleanup"

\* game_loop returns r.
LoopReturns(r) ==
    game' = [game EXCEPT !.loop_res = r, !.pc = game_after_loop(r)]

\* ui::new(disp_kind) in game()
UiNew(ok) ==
    /\ game.pc = "ui_new"
    /\ game' = IF ok THEN [game EXCEPT !.pc = "from_str"]
               ELSE [game EXCEPT !.pc = "returned", !.res = "UiError:new"]
    /\ BoardUntouched
    /\ UNCHANGED <<text, build, output>>
    /\ UNCHANGED front

\* Board::from_str(level)? in game_loop.  A panic unwinds out of game(); the
\* panic hook of the Tui calls its cleanup.
GameLoopFromStr ==
    /\ game.pc = "from_str"
    /\ LET r == from_str(build, text)
       IN /\ output' = [fn |-> "Board::from_str", res |-> r]
          /\ IF r.kind = "Ok"
             THEN /\ BoardBecomes(r.val)
                  /\ parsed_player' = r.val.player
                  /\ parsed_crates' = r.val.crates
                  /\ op' = "from_str"
                  /\ game' = [game EXCEPT !.pc = "display"]
             ELSE /\ UNCHANGED <<map, player, crates, original_player,
                                 original_crates, parsed_player,
                                 parsed_crates, op>>
                  /\ IF r.kind = "Err"
                     THEN LoopReturns("LevelParseError")
                     ELSE game' = [game EXCEPT
                                     !.pc = "panicked",
                                     !.cleanups = IF game.kind = "TUI"
                                                  THEN @ + 1 ELSE @]
    /\ UNCHANGED <<dir, ret, text, build>>
    /\ UNCHANGED front

pushed_and_wonAfterAnyMove(b, res) == res.moved /\ has_won(b)

\* if let Some(Some(_)) = res { if board.has_won() { .. } }
pushed_and_won(b, res) == res.moved /\ res.crate # 0 /\ has_won(b)

\* ui.display(&board, ..)?, before the first action and after a move; after
\* a move that pushed a crate has_won is tested.
UiDisplay(ok) ==
    /\ game.pc \in {"display", "display_move"}
    /\ IF ~ok THEN LoopReturns("UiError:display")
       ELSE LET shown == [player |-> player, crates |-> crates]
            IN IF game.pc = "display_move" /\ pushed_and_won(Board, ret)
               THEN game' = [game EXCEPT !.pc = "won", !.shown = shown]
               ELSE game' = [game EXCEPT !.pc = "get_action",
                                         !.shown = shown]
    /\ BoardUntouched
    /\ UNCHANGED <<text, build, output>>
    /\ UNCHANGED front

\* ui.get_action(&board)? failing.
UiGetActionFails ==
    /\ game.pc = "get_action"
    /\ LoopReturns("UiError:get_action")
    /\ BoardUntouched
    /\ UNCHANGED <<text, build, output>>
    /\ UNCHANGED front

\* ui.get_action(&board)? giving the action a, and what the match does
\* with it.
UiGetAction(a) ==
    /\ game.pc = "get_action"
    /\ IF a \in Directions
       THEN LET o == do_move_player(Board, a)
            IN /\ BoardBecomes(o.board)
               /\ op' = "do_move_player"
               /\ dir' = a
               /\ ret' = o.ret
               /\ game' = [game EXCEPT !.pc = "display_move"]
       ELSE IF a = "ResetLevel"
       THEN /\ BoardBecomes(reset(Board))
            /\ op' = "reset"
            /\ UNCHANGED <<dir, ret, game>>
       ELSE /\ LoopReturns("Ok")
            /\ UNCHANGED <<map, player, crates, original_player,
                           original_crates, op, dir, ret>>
    /\ UNCHANGED <<parsed_player, parsed_crates, text, build, output>>
    /\ UNCHANGED front

\* ui.won()? and the return that follows.
UiWon(ok) ==
    /\ game.pc = "won"
    /\ LET r == IF ok THEN "Ok" ELSE "UiError:won"
       IN game' = [game EXCEPT !.won = @ + 1, !.loop_res = r,
                               !.pc = game_after_loop(r)]
    /\ BoardUntouched
    /\ UNCHANGED <<text, build, output>>
    /\ UNCHANGED front

\* ui.cleanup().map_err(GameError::UiError)?; res
UiCleanup(ok) ==
    /\ game.pc = "cleanup"
    /\ game' = [game EXCEPT !.pc = "returned",
                            !.cleanups = @ + 1,
                            !.res = IF ok THEN game.loop_res
                                    ELSE "UiError:cleanup"]
    /\ BoardUntouched
    /\ UNCHANGED <<text, build, output>>
    /\ UNCHANGED front

NextGame ==
    \/ \E ok \in BOOLEAN : UiNew(ok)
    \/ GameLoopFromStr
    \/ \E ok \in BOOLEAN : UiDisplay(ok)
    \/ UiGetActionFails
    \/ \E a \in Actions : UiGetAction(a)
    \/ \E ok \in BOOLEAN : UiWon(ok)
    \/ \E ok \in BOOLEAN : UiCleanup(ok)

GameSpec == InitGame /\ [][NextGame]_vars

\* ------------------------------------------- ggez, macroquad and fyrox
\* The three front ends own a Board and a facing direction and feed the
\* board from the events of their engine.  Timing, images and the drawing
\* itself are left out: they read the board and never write it.

\* Direction::default()
Direction_default == "Down"

\* The levels of the front ends: one that Left wins with the player and the
\* crate in row 0, one won from the start, and one that Right wins with
\* nothing in row 0 or column 0 but the player.
FrontLevels ==
    { <<"X", ".", ".", NL, ".", ".", ".">> \o SEP \o <<"2", ",", "0">>
          \o SEP \o <<"1", ",", "0">>,
      <<".", "X">> \o SEP \o <<"0", ",", "0">> \o SEP \o <<"1", ",", "0">>,
      <<".", ".", ".", NL, ".", ".", "X">> \o SEP \o <<"0", ",", "1">>
          \o SEP \o <<"1", ",", "1">> }

FrontKinds == {"ggez", "macroquad", "fyrox"}

\* KeyCode of ggez and of macroquad, Button of ggez, Key of fyrox: the ones
\* the handlers name and one other.
KeyCodes == {"Escape", "Q", "R", "Left", "Right", "Up", "Down", "Other"}
Buttons ==
    {"Start", "West", "DPadLeft", "DPadRight", "DPadUp", "DPadDown", "Other"}
Keys ==
    {"Escape", "q", "r", "f", "g", "ArrowLeft", "ArrowRight", "ArrowUp",
     "ArrowDown", "Other"}

\* A handler works on the record h of what it can touch: the board, the
\* direction, the LoadingState of fyrox, whether it asked to quit, the panic
\* it raised, and, in their order, the calls it made on the board and the
\* calls of add_animation.
Handling ==
    [board |-> Board, direction |-> front.direction,
     loading |-> front.loading, quit |-> FALSE, panicked |-> "no",
     build |-> build, calls |-> << >>, animations |-> << >>]

\* self.board.reset() from a handler
board_reset(h) ==
    [h EXCEPT !.board = reset(h.board),
              !.calls = Append(@, [op |-> "reset", dir |-> "Down",
                                   ret |-> Blocked,
                                   won |-> has_won(h.board)])]

\* self.board.do_move_player(dir) from a handler
board_do_move_player(h, d) ==
    LET o == do_move_player(h.board, d)
    IN [h EXCEPT !.board = o.board,
                 !.calls = Append(@, [op |-> "do_move_player", dir |-> d,
                                      ret |-> o.ret,
                                      won |-> has_won(h.board)])]

\* State::reset of ggez and of macroquad
State_reset(h) == [board_reset(h) EXCEPT !.direction = "Down"]

State_do_move_playerWhenMoved(h, d) ==
    LET h1 == board_do_move_player(h, d)
    IN IF h1.calls[Len(h1.calls)].ret.moved
       THEN [h1 EXCEPT !.direction = d] ELSE h1

\* State::do_move_player of ggez and of macroquad
State_do_move_player(h, d) ==
    [board_do_move_player(h, d) EXCEPT !.direction = d]

\* ctx.request_quit(), the `true` of manage_input_and_should_quit, exit()
request_quit(h) == [h EXCEPT !.quit = TRUE]

\* State::key_down_event of ggez
key_down_event(h, keycode) ==
    IF has_won(h.board)
    THEN IF keycode = "Escape" THEN request_quit(h) ELSE h
    ELSE CASE keycode \in {"Escape", "Q"} -> request_quit(h)
           [] keycode = "R" -> State_reset(h)
           [] keycode \in Directions -> State_do_move_player(h, keycode)
           [] OTHER -> h

\* The Direction of a DPad button.
DPad(btn) ==
    CASE btn = "DPadLeft" -> "Left"
      [] btn = "DPadRight" -> "Right"
      [] btn = "DPadUp" -> "Up"
      [] btn = "DPadDown" -> "Down"

\* State::gamepad_button_down_event of ggez
gamepad_button_down_event(h, btn) ==
    IF has_won(h.board)
    THEN IF btn = "Start" THEN request_quit(h) ELSE h
    ELSE CASE btn = "Start" -> request_quit(h)
           [] btn = "West" -> State_reset(h)
           [] btn \in {"DPadLeft", "DPadRight", "DPadUp", "DPadDown"}
                 -> State_do_move_player(h, DPad(btn))
           [] OTHER -> h

\* State::manage_input_and_should_quit of macroquad, with the set of the keys
\* is_key_pressed reports in this frame.
manage_input_and_should_quit(h, pressed) ==
    LET Move(g, d) == IF d \in pressed THEN State_do_move_player(g, d) ELSE g
        h1 == IF "R" \in pressed THEN State_reset(h) ELSE h
        h5 == Move(Move(Move(Move(h1, "Left"), "Right"), "Up"), "Down")
    IN IF has_won(h.board)
       THEN IF "Escape" \in pressed THEN request_quit(h) ELSE h
       ELSE IF "Escape" \in pressed \/ "Q" \in pressed
            THEN request_quit(h5) ELSE h5

\* panic!(..): nothing of the handler runs after it.
panic(h, why) == [h EXCEPT !.panicked = why]

\* Game::add_animation(.., dir, dst): src is dst.1 - 1 for Down and
\* dst.0 - 1 for Right, in u32: below 0 the debug build panics and the
\* release build wraps.
add_animation(h, d, dst) ==
    IF h.panicked # "no" THEN h
    ELSE LET underflow == \/ d = "Down" /\ dst[2] = 0
                          \/ d = "Right" /\ dst[1] = 0
             h1 == [h EXCEPT !.animations =
                       Append(@, [dir |-> d, dst |-> dst])]
         IN IF underflow /\ h.build = "debug"
            THEN panic(h1, "attempt to subtract with overflow")
            ELSE h1

\* add_animation for the crates from the k-th on, in their order.
RECURSIVE add_animations(_, _, _)
add_animations(h, d, k) ==
    IF k > Len(h.board.crates) THEN h
    ELSE add_animations(add_animation(h, d, h.board.crates[k]), d, k + 1)

\* LoadingState::unwrap_scene_filled
unwrap_scene_filled(h) ==
    IF h.loading = "SceneFilled" THEN h
    ELSE panic(h, "Game should be in LoadingStata::SceneFilled")

\* Game::reset of fyrox
Game_reset(h) ==
    LET h0 == unwrap_scene_filled(h)
    IN IF h0.panicked # "no" THEN h0
       ELSE LET h1 == [board_reset(h0) EXCEPT !.direction = Direction_default]
                h2 == add_animation(h1, h1.direction, h1.board.player)
            IN add_animations(h2, h1.direction, 1)

\* Game::do_move_player of fyrox
Game_do_move_player(h, d) ==
    LET h0 == unwrap_scene_filled(h)
    IN IF h0.panicked # "no" THEN h0
       ELSE LET h1 == board_do_move_player(h0, d)
                r  == h1.calls[Len(h1.calls)].ret
                h2 == IF r.moved
                      THEN add_animation(h1, d, h1.board.player) ELSE h1
                h3 == IF r.moved /\ r.crate # 0
                      THEN add_animation(h2, d, h2.board.crates[r.crate])
                      ELSE h2
            IN IF h3.panicked # "no" THEN h3
               ELSE [h3 EXCEPT
                       !.loading = IF r.moved /\ r.crate # 0
                                        /\ has_won(h3.board)
                                   THEN "Won" ELSE @,
                       !.direction = d]

\* Plugin::init of Game
Game_init(h, level) ==
    LET r == from_str(h.build, level)
    IN IF r.kind = "Ok"
       THEN [h EXCEPT !.board = r.val, !.loading = "WaitingScene"]
       ELSE panic(h, "Failed to load level !")

\* Plugin::update of Game
Game_update(h) ==
    IF h.loading # "Won" THEN unwrap_scene_filled(h) ELSE h

\* The Direction of an arrow key.
Arrow(key) ==
    CASE key = "ArrowLeft" -> "Left"
      [] key = "ArrowRight" -> "Right"
      [] key = "ArrowUp" -> "Up"
      [] key = "ArrowDown" -> "Down"

\* Plugin::on_os_event of Game, for a key pressed
on_os_event(h, key) ==
    IF h.loading = "Won"
    THEN IF key = "Escape" THEN request_quit(h) ELSE h
    ELSE CASE key \in {"Escape", "q"} -> request_quit(h)
           [] key = "r" -> Game_reset(h)
           [] key \in {"ArrowLeft", "ArrowRight", "ArrowUp", "ArrowDown"}
                 -> Game_do_move_player(h, Arrow(key))
           [] OTHER -> h

\* Plugin::on_scene_loaded of Game
on_scene_loaded(h) ==
    IF h.loading # "WaitingScene"
    THEN panic(h, "Should be in loading state WaitingScene")
    ELSE LET h1 == [h EXCEPT !.loading = "None"]
             h2 == add_animation(h1, Direction_default, h1.board.player)
             h3 == add_animations(h2, Direction_default, 1)
         IN IF h3.panicked # "no" THEN h3
            ELSE [h3 EXCEPT !.loading = "SceneFilled"]

\* State::new of ggez and of macroquad, Game::default() of fyrox.
InitFront ==
    /\ text \in FrontLevels
    /\ build \in Builds
    /\ output = NoOutput
    /\ game = NoGame
    /\ dir = "Down"
    /\ ret = Blocked
    /\ \E k \in FrontKinds :
         /\ front = [NoFront EXCEPT
                       !.kind = k,
                       !.direction = IF k = "macroquad" THEN "Down"
                                     ELSE Direction_default]
         /\ \E r \in {from_str(build, text)} :
            \E b \in {IF k = "fyrox" \/ r.kind # "Ok"
                       THEN [map |-> NoMap, player |-> <<0, 0>>,
                             crates |-> << >>, original_player |-> <<0, 0>>,
                             original_crates |-> << >>]
                       ELSE r.val} :
               /\ map = b.map
               /\ player = b.player
               /\ crates = b.crates
               /\ original_player = b.original_player
               /\ original_crates = b.original_crates
               /\ parsed_player = b.player
               /\ parsed_crates = b.crates
               /\ op = IF k = "fyrox" THEN "none" ELSE "from_str"

\* The handler has run and left h.
Handled(h) ==
    /\ BoardBecomes(h.board)
    /\ front' = [front EXCEPT
                   !.direction = h.direction,
                   !.loading = h.loading,
                   !.quit = h.quit,
                   !.panicked = h.panicked,
                   !.on_won = \E k \in 1..Len(h.calls) : h.calls[k].won,
                   !.animations = h.animations]
    /\ IF h.calls = << >> THEN UNCHANGED <<op, dir, ret>>
       ELSE LET c == h.calls[Len(h.calls)]
            IN /\ op' = c.op
               /\ IF c.op = "do_move_player"
                  THEN dir' = c.dir /\ ret' = c.ret
                  ELSE UNCHANGED <<dir, ret>>
    /\ UNCHANGED <<text, build, output, game>>

\* The front end is running: it has not quit and has not panicked.
Running(k) ==
    front.kind = k /\ ~front.quit /\ front.panicked = "no"

GgezKeyDown(keycode) ==
    /\ Running("ggez")
    /\ \E h \in {key_down_event(Handling, keycode)} : Handled(h)
    /\ UNCHANGED <<parsed_player, parsed_crates>>

GgezGamepadButtonDown(btn) ==
    /\ Running("ggez")
    /\ \E h \in {gamepad_button_down_event(Handling, btn)} : Handled(h)
    /\ UNCHANGED <<parsed_player, parsed_crates>>

\* One frame of macroquad's loop.
MacroquadFrame(pressed) ==
    /\ Running("macroquad")
    /\ \E h \in {manage_input_and_should_quit(Handling, pressed)} : Handled(h)
    /\ UNCHANGED <<parsed_player, parsed_crates>>

FyroxInit ==
    /\ Running("fyrox")
    /\ front.loading = "None"
    /\ op = "none"
    /\ \E h \in {Game_init(Handling, text)} :
          /\ Handled([h EXCEPT !.calls = <<[op |-> "from_str", dir |-> dir,
                                            ret |-> ret, won |-> FALSE]>>])
          /\ parsed_player' = h.board.player
          /\ parsed_crates' = h.board.crates

\* The engine's callbacks after init, in any order.
FyroxUpdate ==
    /\ Running("fyrox")
    /\ op # "none"
    /\ \E h \in {Game_update(Handling)} : Handled(h)
    /\ UNCHANGED <<parsed_player, parsed_crates>>

FyroxOsEvent(key) ==
    /\ Running("fyrox")
    /\ op # "none"
    /\ \E h \in {on_os_event(Handling, key)} : Handled(h)
    /\ UNCHANGED <<parsed_player, parsed_crates>>

\* The one scene init asked for has been loaded.
FyroxSceneLoaded ==
    /\ Running("fyrox")
    /\ front.loading = "WaitingScene"
    /\ \E h \in {on_scene_loaded(Handling)} : Handled(h)
    /\ UNCHANGED <<parsed_player, parsed_crates>>

NextFront ==
    \/ \E keycode \in KeyCodes : GgezKeyDown(keycode)
    \/ \E btn \in Buttons : GgezGamepadButtonDown(btn)
    \/ \E pressed \in SUBSET (KeyCodes \ {"Other"}) : MacroquadFrame(pressed)
    \/ FyroxInit
    \/ FyroxUpdate
    \/ \E key \in Keys : FyroxOsEvent(key)
    \/ FyroxSceneLoaded

FrontSpec == InitFront /\ [][NextFront]_vars

\* ------------------------------------------------- vocabulary of the claims
\* The unit step of a direction, on unbounded integers.
Step(d) ==
    CASE d = "Left"  -> <<-1, 0>>
      [] d = "Right" -> <<1, 0>>
      [] d = "Up"    -> <<0, -1>>
      [] d = "Down"  -> <<0, 1>>

Plus(pos, delta) == <<pos[1] + delta[1], pos[2] + delta[2]>>

InsideMap(m, pos) ==
    pos[1] >= 0 /\ pos[1] < m.width /\ pos[2] >= 0 /\ pos[2] < m.height

\* The kind of the cell at pos, any pair of integers: Void outside the map.
CellAt(m, pos) ==
    IF InsideMap(m, pos) THEN m.squares[pos[2] * m.width + pos[1] + 1]
    ELSE "Void"

OnFloorOrTarget(m, pos) == CellAt(m, pos) \in {"Floor", "Target"}

PairwiseDistinct(cs) ==
    \A k, l \in 1..Len(cs) : k # l => cs[k] # cs[l]

CrateAt(cs, pos) == \E k \in 1..Len(cs) : cs[k] = pos

AllOnFloorOrTarget(m, p, cs) ==
    /\ OnFloorOrTarget(m, p)
    /\ \A k \in 1..Len(cs) : OnFloorOrTarget(m, cs[k])

\* The step just taken is a call of do_move_player, and what it returned.
MoveCalled == op' = "do_move_player"
ReturnedBlocked   == MoveCalled /\ ~ret'.moved
ReturnedMovedNone == MoveCalled /\ ret'.moved /\ ret'.crate = 0
ReturnedMovedSome == MoveCalled /\ ret'.moved /\ ret'.crate # 0

\* ------------------------------------------------------------------ claims

\* C1: from a parsed board whose crates are on pairwise distinct cells, after
\* any sequence of do_move_player and reset calls no two crates share a cell.
C1_NoTwoCratesShareACell ==
    PairwiseDistinct(parsed_crates) => PairwiseDistinct(crates)

\* One of several distinct crates has just been pushed.
C1_Witness ==
    /\ PairwiseDistinct(parsed_crates)
    /\ Len(crates) >= 2
    /\ op = "do_move_player" /\ ret.moved /\ ret.crate # 0

\* C2 as stated: from a parsed board whose player is not on a crate and whose
\* player and crates are on crossable cells, the player's cell is never
\* occupied by a crate.
C2_AsStated ==
    (/\ ~CrateAt(parsed_crates, parsed_player)
     /\ AllOnFloorOrTarget(map, parsed_player, parsed_crates))
        => ~CrateAt(crates, player)

\* C2, amended: the same, from a parsed board whose crates are moreover on
\* pairwise distinct cells.
C2_PlayerNeverOnACrate ==
    (/\ ~CrateAt(parsed_crates, parsed_player)
     /\ AllOnFloorOrTarget(map, parsed_player, parsed_crates)
     /\ PairwiseDistinct(parsed_crates))
        => ~CrateAt(crates, player)

\* On such a board the player has just pushed the first crate and stands
\* where it was.
C2_Witness ==
    /\ ~CrateAt(parsed_crates, parsed_player)
    /\ AllOnFloorOrTarget(map, parsed_player, parsed_crates)
    /\ PairwiseDistinct(parsed_crates)
    /\ op = "do_move_player" /\ ret.moved /\ ret.crate = 1
    /\ crates[1] = Plus(player, Step(dir))

\* C3: from a parsed board whose player and crates are on Floor or Target
\* cells, the player and every crate stay on Floor or Target cells, hence
\* inside the map rectangle.
C3_StayOnFloorOrTarget ==
    AllOnFloorOrTarget(map, parsed_player, parsed_crates)
        => /\ AllOnFloorOrTarget(map, player, crates)
           /\ InsideMap(map, player)
           /\ \A k \in 1..Len(crates) : InsideMap(map, crates[k])

\* On such a board a crate has been pushed away from its place, and the
\* move that would push the crate in front of the player off the crossable
\* cells has just been refused.
C3_Witness ==
    /\ AllOnFloorOrTarget(map, parsed_player, parsed_crates)
    /\ crates # parsed_crates
    /\ op = "do_move_player" /\ ~ret.moved
    /\ CrateAt(crates, Plus(player, Step(dir)))
    /\ ~OnFloorOrTarget(map, Plus(Plus(player, Step(dir)), Step(dir)))

\* C4: whenever do_move_player returns Blocked (None), the player and every
\* crate are where they were before the call.
C4_BlockedChangesNothing ==
    [][ReturnedBlocked => (player' = player /\ crates' = crates)]_vars

\* C5: whenever do_move_player(dir) returns Moved(Some(i)), i is an index of
\* the crate sequence, crate i was on the cell next to the player in
\* direction dir, it now is one cell further in that direction, the player
\* stands where crate i was, and no other crate changed.
C5_PushMovesTheReportedCrate ==
    [][ReturnedMovedSome =>
         LET i == ret'.crate
         IN /\ i \in 1..Len(crates)
            /\ Len(crates') = Len(crates)
            /\ crates[i] = Plus(player, Step(dir'))
            /\ crates'[i] = Plus(crates[i], Step(dir'))
            /\ player' = crates[i]
            /\ \A k \in 1..Len(crates) : k # i => crates'[k] = crates[k]]_vars

\* The second crate of the sequence has just been pushed.
C5_Witness ==
    op = "do_move_player" /\ ret.moved /\ ret.crate = 2

\* C6: whenever do_move_player(dir) returns Moved(None), the player's new
\* position is its old one plus the unit step of dir, and no crate changed.
C6_PlainStepMovesThePlayer ==
    [][ReturnedMovedNone =>
         (player' = Plus(player, Step(dir')) /\ crates' = crates)]_vars

\* C7: when a crate is on the cell next to the player in direction dir,
\* do_move_player(dir) returns Moved(Some(_)) if the cell one step further is
\* crossable and holds no crate, and Blocked otherwise.
C7_PushIffLandingFree ==
    [][(MoveCalled /\ CrateAt(crates, Plus(player, Step(dir')))) =>
         LET landing == Plus(Plus(player, Step(dir')), Step(dir'))
         IN IF OnFloorOrTarget(map, landing) /\ ~CrateAt(crates, landing)
            THEN ret'.moved /\ ret'.crate # 0
            ELSE ~ret'.moved]_vars

\* C8: when no crate is on the cell next to the player in direction dir,
\* do_move_player(dir) returns Moved(None) if that cell is Floor or Target,
\* and Blocked if it is Wall, Void or outside the map.
C8_StepIffCrossable ==
    [][(MoveCalled /\ ~CrateAt(crates, Plus(player, Step(dir')))) =>
         IF OnFloorOrTarget(map, Plus(player, Step(dir')))
         THEN ret'.moved /\ ret'.crate = 0
         ELSE ~ret'.moved]_vars

\* C9: the saved snapshot always is what the parser built, and a reset puts
\* the player and the whole crate sequence back to it.
C9_ResetRestoresParsedPositions ==
    /\ original_player = parsed_player
    /\ original_crates = parsed_crates
    /\ op = "reset" => (player = parsed_player /\ crates = parsed_crates)

\* reset has been called after a move that pushed a crate.
C9_Witness ==
    op = "reset" /\ ret.moved /\ ret.crate # 0

\* C10: a reset that follows a reset changes nothing of the board.
C10_ResetIsIdempotent ==
    [][(op = "reset" /\ op' = "reset") =>
         UNCHANGED <<map, player, crates,
                     original_player, original_crates>>]_vars

\* reset has been called after a plain step of the player; the next reset
\* is the second of two in a row.
C10_Witness ==
    op = "reset" /\ ret.moved /\ ret.crate = 0

\* C11: the Map (width, height and every cell) is never changed after
\* construction, neither by do_move_player nor by reset.
C11_MapNeverChanges ==
    [][map' = map]_vars

\* A move has been refused and reset called since; the map is the one the
\* level gave.
C11_Witness ==
    /\ op = "reset" /\ ~ret.moved /\ dir = "Left"
    /\ map = MapFromLines(LevelMapLines)

\* C12: in every board state has_won() is true if and only if every crate's
\* cell is a Target of the map, whatever moves and resets came before.
C12_HasWonIffAllCratesOnTargets ==
    has_won(Board) <=>
        \A k \in 1..Len(crates) : CellAt(map, crates[k]) = "Target"

\* A push has just put the last of several crates on a Target.
C12_Witness ==
    /\ has_won(Board)
    /\ Len(crates) >= 2
    /\ ~has_won([Board EXCEPT !.crates = parsed_crates])
    /\ op = "do_move_player" /\ ret.moved /\ ret.crate # 0

\* C13: for a player in column 0 asked to move Left, or in row 0 asked to
\* move Up, the computed coordinate is clamped at 0 (the computed cell is the
\* player's own) and the player stays on its cell.
C13_ClampedAtZero ==
    [][(/\ MoveCalled
        /\ \/ dir' = "Left" /\ player[1] = 0
           \/ dir' = "Up" /\ player[2] = 0)
         => /\ to_coords(dir', player[1], player[2]) = player
            /\ player' = player]_vars

\* The player, in row 0, has just been asked to move Up.
C13_Witness ==
    op = "do_move_player" /\ dir = "Up" /\ player[2] = 0 /\ ret.moved

\* ------------------------------------------ vocabulary of the parser claims
Returned(f) == output.fn = f

ReturnedErr(f, e, a) ==
    /\ output.fn = f
    /\ output.res.kind = "Err"
    /\ output.res.err = e
    /\ output.res.arg = a

\* The cell a symbol stands for.
KindOfSymbol(ch) ==
    CASE ch = " " -> "Void"
      [] ch = "." -> "Floor"
      [] ch = "#" -> "Wall"
      [] ch = "X" -> "Target"
      [] OTHER    -> "Unknown"

NonEmptyLines(ls) == Cardinality({k \in 1..Len(ls) : ls[k] # << >>})

\* Every character of the lines ls is in m at the column and row of its line,
\* and the rest of each row is Void.
PlacedByLine(ls, m) ==
    \A j \in 1..Len(ls) : \A i \in 1..m.width :
        LET id == (j - 1) * m.width + i
        IN /\ id \in DOMAIN m.squares
           /\ m.squares[id] = IF i <= Len(ls[j]) THEN KindOfSymbol(ls[j][i])
                              ELSE "Void"

\* Every character of the lines ls is in m, as the cell it stands for, at the
\* column and row of its line.
PlacedSymbols(ls, m) ==
    \A j \in 1..Len(ls) : \A i \in 1..Len(ls[j]) :
        LET id == (j - 1) * m.width + i
        IN id \in DOMAIN m.squares /\ m.squares[id] = KindOfSymbol(ls[j][i])

\* m is the Map that the text src describes.
ParsedAsDescribed(src, m) ==
    /\ m.width = MaxLineLen(lines(src))
    /\ m.height = NonEmptyLines(lines(src))
    /\ PlacedByLine(lines(src), m)

\* A line without its Void symbols at the end.
RECURSIVE TrimVoid(_)
TrimVoid(l) ==
    IF l # << >> /\ l[Len(l)] = SYMBOL_VOID
    THEN TrimVoid(SubSeq(l, 1, Len(l) - 1))
    ELSE l

\* The map block of the text parses.
MapBlockParses(bs) == bs # << >> /\ try_from(build, bs[1]).kind = "Ok"

\* A line that is two unsigned integers (what follows them is C26's matter).
WellFormed(l) == parse_coordinates(l).ok

Malformed(ls) == {k \in 1..Len(ls) : ~WellFormed(ls[k])}

FirstOf(S) == CHOOSE k \in S : \A l \in S : k <= l

\* The places of a text that hold neither a symbol nor a newline.
UnknownAt(src) == {k \in 1..Len(src) : src[k] \notin Symbols \cup {NL}}

FirstUnknown(src) == src[FirstOf(UnknownAt(src))]

\* C14: Map.get(x, y) is total: for x < width and y < height it returns the
\* cell stored at row-major index y*width + x, for every other pair it returns
\* Void without faulting, and try_get returns None exactly there.
C14_GetIsTotal ==
    Returned("Map::get") =>
        IF output.i < map.width /\ output.j < map.height
        THEN LET id == output.j * map.width + output.i
             IN /\ id < Len(map.squares)
                /\ output.try_get = map.squares[id + 1]
                /\ output.get = map.squares[id + 1]
        ELSE output.try_get = "None" /\ output.get = "Void"

\* C15: Map::new(width, height) fails with an InvalidDimensions error when
\* width*height overflows, and otherwise returns a map of exactly
\* width*height cells, all Void.
C15_MapNewChecksDimensions ==
    Returned("Map::new") =>
        LET n == output.width * output.height
        IN IF n > CoordMax
           THEN /\ output.res.kind = "Err"
                /\ output.res.err = "InvalidDimensions"
           ELSE /\ output.res.kind = "Ok"
                /\ output.res.val.width = output.width
                /\ output.res.val.height = output.height
                /\ output.res.val.squares = [k \in 1..n |-> "Void"]

\* C16: parsing a map block gives a map whose width is the length of the
\* longest line and whose height is the number of non-empty lines of the
\* block; each character is placed at the column and row of its line and
\* each shorter line is padded with Void on the right.
C16_MapBlockDimensions ==
    /\ (Returned("Map::try_from") /\ output.res.kind = "Ok")
          => ParsedAsDescribed(text, map)
    /\ (Returned("Board::from_str") /\ output.res.kind = "Ok")
          => ParsedAsDescribed(blocks(text)[1], map)

\* C17: round trip: the Display of a parsed Map has as many rows as the text,
\* each row is the line of the text up to Void symbols at its end, and
\* parsing the displayed text gives a Map equal to the first.
C17_RoundTrip ==
    Returned("Display") =>
        LET ls    == lines(text)
            shown == lines(output.shown)
        IN /\ Len(shown) = Len(ls)
           /\ \A k \in 1..Len(ls) : TrimVoid(shown[k]) = TrimVoid(ls[k])
           /\ output.again.kind = "Ok"
           /\ output.again.val = map

\* C18: a level whose blocks stop early reports the missing block:
\* MissingMap without a non-empty block, MissingPlayerCoordinates with the
\* map block only, MissingCratesCoordinates with the map block and a
\* well-formed player line only, a newline after that line or not.
C18_MissingBlockIsReported ==
    Returned("Board::from_str") =>
        LET bs == blocks(text)
        IN /\ Len(bs) = 0
                => ReturnedErr("Board::from_str", "MissingMap", << >>)
           /\ (Len(bs) = 1 /\ MapBlockParses(bs))
                => ReturnedErr("Board::from_str",
                               "MissingPlayerCoordinates", << >>)
           /\ (/\ Len(bs) = 2
               /\ MapBlockParses(bs)
               /\ Len(lines(bs[2])) = 1
               /\ WellFormed(lines(bs[2])[1]))
                => ReturnedErr("Board::from_str",
                               "MissingCratesCoordinates", << >>)

\* C19: a player or crate line that is not two unsigned integers makes the
\* parse fail with CantParsePlayerCoordinates or CantParseCrateCoordinates
\* carrying exactly that line, the first such line of the crates block being
\* the one reported, and no Board is returned.
C19_MalformedLineIsReported ==
    (Returned("Board::from_str") /\ MapBlockParses(blocks(text))
                                 /\ Len(blocks(text)) >= 2) =>
        LET bs == blocks(text)
            pl == lines(bs[2])
        IN IF Malformed(pl) # {}
           THEN /\ ReturnedErr("Board::from_str", "CantParsePlayerCoordinates",
                               pl[FirstOf(Malformed(pl))])
                /\ map = NoMap
           ELSE (Len(bs) >= 3 /\ Malformed(lines(bs[3])) # {}) =>
                /\ ReturnedErr("Board::from_str", "CantParseCrateCoordinates",
                               lines(bs[3])[FirstOf(Malformed(lines(bs[3])))])
                /\ map = NoMap

\* C20: a map block with a character other than ' ', '.', '#', 'X' makes the
\* parse fail with CantParseMap carrying the first such character in row then
\* column order; the four symbols stand for Void, Floor, Wall and Target.
C20_UnknownSymbolIsReported ==
    /\ (Returned("Map::try_from") /\ UnknownAt(text) # {})
          => ReturnedErr("Map::try_from", "Unknown symbol", FirstUnknown(text))
    /\ (/\ Returned("Board::from_str")
        /\ blocks(text) # << >>
        /\ UnknownAt(blocks(text)[1]) # {})
          => ReturnedErr("Board::from_str", "CantParseMap",
                         FirstUnknown(blocks(text)[1]))
    /\ (Returned("Map::try_from") /\ output.res.kind = "Ok")
          => PlacedSymbols(lines(text), map)

\* A line of exactly the form <unsigned integer>,<unsigned integer>.
ExactForm(l) == Len(split(l, <<",">>)) = 2 /\ WellFormed(l)

\* The position a coordinate line gives.
PositionOf(l) == parse_coordinates(l).pos

PositionsOf(ls) == [k \in 1..Len(ls) |-> PositionOf(ls[k])]

\* A level of three blocks: a map block that parses, a player line and crate
\* lines of the exact form.
SyntacticallyValid(bs) ==
    /\ Len(bs) = 3
    /\ MapBlockParses(bs)
    /\ ExactForm(bs[2])
    /\ lines(bs[3]) # << >>
    /\ \A k \in 1..Len(lines(bs[3])) : ExactForm(lines(bs[3])[k])

\* Something stands where the game never puts it: the player or a crate off
\* the Floor and Target cells, two crates on a cell, a crate under the player.
BadPlacement(m, p, cs) ==
    \/ ~AllOnFloorOrTarget(m, p, cs)
    \/ ~PairwiseDistinct(cs)
    \/ CrateAt(cs, p)

\* C21: on a successful parse the player is the position of the player line,
\* crate k is the position of line k of the crates block, original_player and
\* original_crates equal player and crates, and a reset right after the
\* parse changes nothing.
C21_ParsedBoardIsTheLevel ==
    (Returned("Board::from_str") /\ output.res.kind = "Ok") =>
        LET bs == blocks(text)
        IN /\ output.res.val = Board
           /\ player = PositionOf(bs[2])
           /\ crates = PositionsOf(lines(bs[3]))
           /\ original_player = player
           /\ original_crates = crates
           /\ reset(Board) = Board

\* A level of several crates on different cells has been parsed.
C21_Witness ==
    /\ Returned("Board::from_str") /\ output.res.kind = "Ok"
    /\ Len(crates) >= 2
    /\ crates[1] # crates[2]
    /\ player # crates[1]

\* C22: a syntactically valid level in which the player or a crate is on a
\* Wall or Void cell or outside the map, or two crates, or a crate and the
\* player, share a cell, is accepted and returned as a Board with these
\* positions.
C22_NoPlacementValidation ==
    (/\ Returned("Board::from_str")
     /\ SyntacticallyValid(blocks(text))
     /\ BadPlacement(try_from(build, blocks(text)[1]).val,
                     PositionOf(blocks(text)[2]),
                     PositionsOf(lines(blocks(text)[3]))))
        => /\ output.res.kind = "Ok"
           /\ player = PositionOf(blocks(text)[2])
           /\ crates = PositionsOf(lines(blocks(text)[3]))

\* A level has been parsed with a crate under the player, a crate on a Wall
\* and two crates on one cell.
C22_Witness ==
    /\ Returned("Board::from_str") /\ output.res.kind = "Ok"
    /\ SyntacticallyValid(blocks(text))
    /\ CrateAt(crates, player)
    /\ ~PairwiseDistinct(crates)
    /\ \E k \in 1..Len(crates) : CellAt(map, crates[k]) = "Wall"

\* The crates whose position the step just taken changed.
ChangedCrates == {k \in 1..Len(crates) : crates'[k] # crates[k]}

\* The parsed level has the player and the crates on Floor or Target cells,
\* one to a cell.
WellFormedLevel ==
    /\ AllOnFloorOrTarget(map, parsed_player, parsed_crates)
    /\ PairwiseDistinct(parsed_crates)
    /\ ~CrateAt(parsed_crates, parsed_player)

\* The indices of the crates on the cell pos.
CratesOn(pos) == {k \in 1..Len(crates) : crates[k] = pos}

\* The cells of the map and one column and one row around it.
CellsAround == (0..map.width) \X (0..map.height)

\* C23: the crate sequence always has the length it had at construction and
\* no call reorders it: a call of do_move_player changes the position of one
\* crate at most, the one in front of the player, by one step and under its
\* own index, which is the index a Moved(Some(i)) reports; a reset puts
\* every index back on its parsed position.
C23_CrateIdentityIsStable ==
    [][/\ Len(crates) = Len(parsed_crates)
       /\ Len(crates') = Len(parsed_crates)
       /\ MoveCalled =>
            /\ Cardinality(ChangedCrates) <= 1
            /\ \A k \in ChangedCrates :
                 /\ crates[k] = Plus(player, Step(dir'))
                 /\ crates'[k] = Plus(crates[k], Step(dir'))
                 /\ ret'.moved => ret'.crate = k
            /\ ReturnedMovedSome => ret'.crate \in ChangedCrates
       /\ op' = "reset" => crates' = parsed_crates]_vars

\* The second crate has been pushed away from its parsed cell, the first is
\* still where it was parsed.
C23_Witness ==
    /\ op = "do_move_player" /\ ret.moved /\ ret.crate = 2
    /\ crates[1] = parsed_crates[1]
    /\ crates[2] # parsed_crates[2]
    /\ crates[1] # crates[2]

\* C24: Board.get(x, y) gives the cell Map.get(x, y) and the item on it: the
\* Player if the player is at (x, y), otherwise Crate(i) with i the index of
\* a crate at (x, y), otherwise none; from a well-formed level no cell ever
\* has two items, so that i is the index of the only crate there.
C24_BoardGet ==
    /\ \A pos \in CellsAround :
         \A e \in {Board_get(Board, pos[1], pos[2])} :
            /\ e.cell = get(map, pos[1], pos[2])
            /\ e.item = "Player" <=> player = pos
            /\ e.item = "Crate" <=> (player # pos /\ CrateAt(crates, pos))
            /\ e.item = "None" <=> (player # pos /\ ~CrateAt(crates, pos))
            /\ e.item = "Crate" => e.index \in CratesOn(pos)
    /\ WellFormedLevel => (PairwiseDistinct(crates) /\ ~CrateAt(crates, player))

\* On a well-formed level the second crate has been pushed and Board.get
\* finds it on its new cell, and the player on the cell it left.
C24_Witness ==
    /\ WellFormedLevel
    /\ op = "do_move_player" /\ ret.moved /\ ret.crate = 2
    /\ Board_get(Board, crates[2][1], crates[2][2]).index = 2
    /\ Board_get(Board, player[1], player[2]).item = "Player"

\* The kinds of cell one can walk on.
Crossables == {"Floor", "Target"}

SwapKinds(a, b) ==
    [c \in CellKind |-> IF c = a THEN b ELSE IF c = b THEN a ELSE c]

Recoloured(m, f) ==
    [m EXCEPT !.squares = [k \in DOMAIN m.squares |-> f[m.squares[k]]]]

\* The map of the same crossability pattern as m and no cell of the same
\* kind: Floor for Target, Void for Wall and back.
TwinMap(m) ==
    Recoloured(Recoloured(m, SwapKinds("Floor", "Target")),
               SwapKinds("Void", "Wall"))

\* C25: is_crossable is true of exactly Floor and Target, and a call of
\* do_move_player returns the same value and leaves the same positions on a
\* map with the same crossability pattern (so that sequences of moves on the
\* two maps agree call after call).
C25_OnlyCrossabilityMatters ==
    [][/\ \A c \in CellKind : is_crossable(c) <=> c \in Crossables
       /\ MoveCalled =>
            \A o \in {do_move_player([Board EXCEPT !.map = TwinMap(map)],
                                    dir')} :
                /\ o.ret = ret'
                /\ o.board.player = player'
                /\ o.board.crates = crates']_vars

\* The player has just pushed a crate off a Target onto a Floor cell, which
\* the twin map has as Floor and Target.
C25_Witness ==
    /\ op = "do_move_player" /\ ret.moved /\ ret.crate # 0
    /\ CellAt(map, player) = "Target"
    /\ CellAt(map, crates[ret.crate]) = "Floor"

\* A line with more than two comma-separated fields.
HasExtraFields(l) == Len(split(l, <<",">>)) > 2

\* C26: a coordinate line is accepted only if it is of the exact form
\* <unsigned integer>,<unsigned integer>: a player or crate line with more
\* comma-separated fields is rejected with CantParsePlayerCoordinates or
\* CantParseCrateCoordinates, not cut down to its first two fields.
C26_ExtraFieldsAreRejected ==
    (/\ Returned("Board::from_str")
     /\ MapBlockParses(blocks(text))
     /\ Len(blocks(text)) >= 3) =>
        LET bs == blocks(text)
            cl == lines(bs[3])
        IN /\ HasExtraFields(bs[2]) =>
                /\ output.res.kind = "Err"
                /\ output.res.err = "CantParsePlayerCoordinates"
           /\ (ExactForm(bs[2]) /\ \E k \in 1..Len(cl) : HasExtraFields(cl[k]))
                => /\ output.res.kind = "Err"
                   /\ output.res.err = "CantParseCrateCoordinates"
           /\ output.res.kind = "Ok" =>
                /\ ExactForm(bs[2])
                /\ \A k \in 1..Len(cl) : ExactForm(cl[k])

\* C27: a level text is accepted only if it has exactly three non-empty
\* blocks: with a fourth non-empty block after the crates block the parse
\* does not succeed.
C27_FourthBlockIsRejected ==
    (Returned("Board::from_str") /\ output.res.kind = "Ok")
        => Len(blocks(text)) = 3

\* The player stands right of a crate of column 0 and is asked to move Left,
\* or below a crate of row 0 and is asked to move Up.
PushAtTheEdge ==
    /\ MoveCalled
    /\ \/ dir' = "Left" /\ player[1] = 1 /\ CrateAt(crates, <<0, player[2]>>)
       \/ dir' = "Up" /\ player[2] = 1 /\ CrateAt(crates, <<player[1], 0>>)

\* C28: pushing a crate of column 0 further Left, or a crate of row 0
\* further Up, is always Blocked: the call does not return Moved, no crate
\* moves and the player stays off the crate's cell.
C28_PushAtTheEdgeIsBlocked ==
    [][PushAtTheEdge =>
         /\ ~ret'.moved
         /\ crates' = crates
         /\ player' = player]_vars

\* The player, on a crossable cell of column 1, has just been refused a move
\* Left against a crate on a crossable cell of column 0.
C28_Witness ==
    /\ op = "do_move_player" /\ dir = "Left" /\ ~ret.moved
    /\ player[1] = 1
    /\ OnFloorOrTarget(map, player)
    /\ CrateAt(crates, <<0, player[2]>>)
    /\ OnFloorOrTarget(map, <<0, player[2]>>)

\* C29: has_won() changes value only across a call of do_move_player that
\* returned Moved(Some(_)) or across a reset: a Blocked move and a plain step
\* never change it.
C29_HasWonChangesOnlyOnPushOrReset ==
    [][(has_won(Board)' # has_won(Board))
          => (ReturnedMovedSome \/ op' = "reset")]_vars

\* game() has returned and its Ui had been created.
GameReturnedWithUi == game.pc = "returned" /\ game.res # "UiError:new"

PushWins ==
    op = "do_move_player" /\ ret.moved /\ ret.crate # 0 /\ has_won(Board)

\* What C31 says of the calls of ui.won() beside the test that leads to
\* them: won is called once at most, only where the loop is about to call
\* it, after the display of a move that pushed a crate and won, and the loop
\* ends with it, no action being read afterwards; Quit ends the loop with Ok
\* and won not called.
WonEndsTheLoop ==
    /\ (game'.won # game.won) =>
          /\ game.pc = "won" /\ PushWins
          /\ game'.won = 1
          /\ game'.pc = "cleanup"
          /\ game'.loop_res \in {"Ok", "UiError:won"}
    /\ (game'.pc = "won" /\ game.pc # "won") => game.pc = "display_move"
    /\ (game.won = 1) => game'.pc \in {"cleanup", "returned"}
    /\ (game.pc = "get_action" /\ game'.loop_res = "Ok") =>
          game'.won = 0 /\ game'.pc = "cleanup"

\* The display of the latest move has just been called.
MoveDisplayed == game.pc = "display_move" /\ game'.pc # "display_move"

\* C31 as stated: ui.won() is the next call of the loop if and only if the
\* Movement just made returned Moved(Some(_)) and has_won() is true, after
\* the display of that move; it is called once, no action is read after it,
\* and Quit ends the loop with Ok without it.
C31_WonIffPushedAndWon ==
    [][/\ MoveDisplayed => (game'.pc = "won" <=> PushWins)
       /\ WonEndsTheLoop]_vars

\* C31, amended: ui.won() is the next call of the loop if and only if the
\* Movement just made returned Moved(Some(_)), has_won() is true and the
\* display of that move succeeded (when it fails the loop ends with its
\* error and won is not called); it is called once, after that display, no
\* action is read after it, and Quit ends the loop with Ok without it.
C31_WonIffPushedWonAndDisplayed ==
    [][/\ MoveDisplayed =>
            (game'.pc = "won" <=> (PushWins /\ game'.loop_res = "none"))
       /\ WonEndsTheLoop]_vars

\* game_loop has called won after the display of a winning push and has
\* returned Ok.
C31_Witness ==
    /\ game.won = 1
    /\ game.loop_res = "Ok"
    /\ PushWins
    /\ game.shown = [player |-> player, crates |-> crates]

NotVacuouslyWon(b) ==
    /\ Len(b.crates) >= 1
    /\ has_won(b) => \E k \in 1..Len(b.crates) : is_placed(b, b.crates[k])

\* C34: a Board returned by a successful parse has at least one crate, in
\* crates and in original_crates, so that has_won() is not true of an empty
\* crate sequence, on the parsed board and on the boards a reset or a move
\* makes of it.
C34_ParsedBoardHasACrate ==
    (Returned("Board::from_str") /\ output.res.kind = "Ok") =>
        \A b \in {output.res.val} :
            /\ NotVacuouslyWon(b)
            /\ Len(b.original_crates) >= 1
            /\ NotVacuouslyWon(reset(b))
            /\ \A d \in Directions : NotVacuouslyWon(do_move_player(b, d).board)

\* A level has been parsed whose crates are all on a Target.
C34_Witness ==
    /\ Returned("Board::from_str")
    /\ output.res.kind = "Ok"
    /\ has_won(output.res.val)
    /\ Len(output.res.val.crates) >= 1

\* C38: from a well-formed level, for the crate on the cell next to the
\* player in the direction of the move, Crate::can_move before the call is
\* true if and only if do_move_player returns Moved(Some(index of that
\* crate)).
C38_CanMoveAgreesWithThePushRule ==
    [][(MoveCalled /\ WellFormedLevel) =>
          \A k \in 1..Len(crates) :
              crates[k] = to_coords(dir', player[1], player[2]) =>
                  (can_move(Board, crates[k], dir')
                      <=> (ret'.moved /\ ret'.crate = k))]_vars

\* From a well-formed level a crate has just been pushed to a cell from which
\* can_move refuses the same direction.
C38_Witness ==
    /\ WellFormedLevel
    /\ op = "do_move_player" /\ ret.moved /\ ret.crate # 0
    /\ ~can_move(Board, crates[ret.crate], dir)
    /\ crates[ret.crate] = to_coords(dir, player[1], player[2])

\* C33: in ggez, macroquad and fyrox a board that satisfies has_won() is
\* frozen: no handler calls do_move_player or reset on it, whatever the
\* events and however many keys one frame reports, and an event that finds
\* the board won leaves the player, the crates and the direction as they are
\* (op is "none" as long as fyrox has no board).
C33_WonBoardIsFrozen ==
    [][/\ ~front'.on_won
       /\ (op # "none" /\ has_won(Board)) =>
            /\ player' = player
            /\ crates' = crates
            /\ front'.direction = front.direction]_vars

\* The order of the LoadingState of fyrox.
LoadingOrder ==
    {<<"None", "WaitingScene">>, <<"WaitingScene", "SceneFilled">>,
     <<"SceneFilled", "Won">>}

\* C35: whatever the order of the engine's callbacks, no update tick and no
\* key press makes the fyrox plugin panic for being in the wrong
\* LoadingState, and the state only advances None -> WaitingScene ->
\* SceneFilled -> Won.
C35_CallbacksInAnyOrder ==
    [][/\ front'.panicked \notin
             {"Game should be in LoadingStata::SceneFilled",
              "Should be in loading state WaitingScene"}
       /\ front'.loading # front.loading =>
             <<front.loading, front'.loading>> \in LoadingOrder]_vars

\* C36: every call of add_animation(dir, dst) has dst.1 >= 1 when dir is
\* Down and dst.0 >= 1 when dir is Right, after a move, on reset and on
\* scene load, so that dst - 1 never goes below 0.
C36_AnimationNeverUnderflows ==
    \A k \in 1..Len(front.animations) :
        /\ front.animations[k].dir = "Down" => front.animations[k].dst[2] >= 1
        /\ front.animations[k].dir = "Right" => front.animations[k].dst[1] >= 1

\* C37: in ggez and macroquad the facing direction is Down before any input
\* and after a reset, and after a move request it is the requested
\* direction, whether the move succeeded or was Blocked; it is no part of
\* the Board, and no handler's effect on the Board depends on it.
C37_FacingDirection ==
    front.kind \in {"ggez", "macroquad"} =>
        /\ op \in {"from_str", "reset"} => front.direction = "Down"
        /\ op = "do_move_player" => front.direction = dir
        /\ \A d0 \in Directions :
             \A h \in {Handling} : \A g \in {[h EXCEPT !.direction = d0]} :
                /\ \A keycode \in KeyCodes :
                      key_down_event(g, keycode).board
                          = key_down_event(h, keycode).board
                /\ \A btn \in Buttons :
                      gamepad_button_down_event(g, btn).board
                          = gamepad_button_down_event(h, btn).board
                /\ \A pressed \in SUBSET (KeyCodes \ {"Other"}) :
                      manage_input_and_should_quit(g, pressed).board
                          = manage_input_and_should_quit(h, pressed).board

\* A move request that was Blocked has turned the player away from Down.
C37_Witness ==
    /\ front.kind \in {"ggez", "macroquad"}
    /\ op = "do_move_player"
    /\ ~ret.moved
    /\ dir # "Down"
    /\ front.direction = dir

====
